---- MODULE Spec2Model ----
(***************************************************************************)
(* A model of two pieces of the repository:                                *)
(*   torch/cuda/random.py        the CUDA RNG wrapper (SpecRng)            *)
(*   tools/stats/upload_test_stats.py  the test-stats uploader             *)
(*       process_xml_element (SpecXml), summarize_test_cases and           *)
(*       get_invoking_file_times (SpecSum), the run itself (SpecRun)       *)
(* Each specification drives its own variables and leaves the others at    *)
(* their idle values.                                                      *)
(***************************************************************************)
EXTENDS Integers, Sequences, FiniteSets, TLC

VARIABLES
    \* ---- torch/cuda/random.py
    nDev,         \* device_count()
    initialized,  \* torch.cuda.is_initialized()
    queued,       \* the lazy gate's queued callbacks, oldest first
    gens,         \* torch.cuda.default_generators: device -> [seed, offset]
    cur,          \* current_device()
    initCount,    \* history: how many times device setup has run
    expect,       \* history: device -> the state last set on it by set_rng_state
    applied,      \* history: the manual_seed callbacks the call just made has run
    last,         \* history: the call just made and its outcome
    \* ---- tools/stats/upload_test_stats.py: process_xml_element
    element,      \* the ET.Element handed to process_xml_element
    xret,         \* the dict it returned
    xpc,          \* "call" before the call, "done" after it
    \* ---- tools/stats/upload_test_stats.py: the aggregation
    test_cases,             \* the list handed to summarize_test_cases
    test_case_summary,      \* what summarize_test_cases returned
    pytest_parallel_times,  \* the dict handed to get_invoking_file_times
    invoking_file_times,    \* what get_invoking_file_times returned
    spc,                    \* "summarize", "times" or "done"
    \* ---- tools/stats/upload_test_stats.py: a run of the script
    circleci,     \* args.circleci
    head_branch,  \* args.head_branch
    reports,      \* the xml reports the artifacts hold, in glob order
    pc,           \* where the run is
    cursor,       \* the report the parse loop is at
    parsed,       \* history: the reports parse_xml_report has returned from
    fetched,      \* history: the download and unzip steps that have finished
    uploads,      \* the tables written to the remote store, in order
    failedBy      \* what raised, once pc = "failed"

rngVars == <<nDev, initialized, queued, gens, cur, initCount, expect, applied, last>>
xmlVars == <<element, xret, xpc>>
sumVars == <<test_cases, test_case_summary, pytest_parallel_times, invoking_file_times, spc>>
runVars == <<circleci, head_branch, reports, pc, cursor, parsed, fetched, uploads, failedBy>>

vars == <<rngVars, xmlVars, sumVars, runVars>>

(***************************************************************************)
(* Bounds                                                                  *)
(***************************************************************************)
MaxQueue == 2

\* what device_count() may be
DeviceCounts == {0, 1, 2}

\* seeds callers give and seed() draws (0 is the seed of a fresh generator), and
\* offsets: 0 after seeding, 1 once numbers have been drawn
Seeds == {1, 2}
Offsets == {0, 1}
Devices == 0..(nDev - 1)
\* the states callers hand to set_rng_state
States == {<<s, 1>> : s \in Seeds}
\* a device argument: the string 'cuda' or an int
DeviceArgs == {[isStr |-> TRUE, val |-> 0]} \cup {[isStr |-> FALSE, val |-> d] : d \in Devices}

NoState == <<>>
NoCall == [op |-> "none", raised |-> FALSE, ret |-> <<>>, didInit |-> FALSE,
           explicit |-> FALSE, dev |-> 0]

(***************************************************************************)
(* The native generator (torch._C.Generator): a seed and an offset.        *)
(***************************************************************************)
gen_get_state(g) == <<g.seed, g.offset>>
gen_set_state(g, st) == [seed |-> st[1], offset |-> st[2]]
gen_set_offset(g, o) == [g EXCEPT !.offset = o]
gen_manual_seed(g, s) == [seed |-> s, offset |-> 0]
gen_initial_seed(g) == g.seed

(***************************************************************************)
(* torch/cuda/random.py                                                    *)
(***************************************************************************)
get_device(device) ==
    IF device.isStr
    THEN [hasIndex |-> FALSE, index |-> 0]
    ELSE [hasIndex |-> TRUE, index |-> device.val]

\* get_generator with the device's index ignored
get_generator_current(device, c) == c

\* the index get_generator(device) reads default_generators at, c being current_device()
get_generator(device, c) ==
    IF ~device.hasIndex THEN c ELSE device.index

\* the callbacks the mutating functions define
cb_set_rng_state(new_state, final_device) ==
    [kind |-> "set_state", device |-> final_device, seed |-> new_state[1], offset |-> new_state[2]]
cb_set_rng_state_offset(offset, final_device) ==
    [kind |-> "set_offset", device |-> final_device, seed |-> 0, offset |-> offset]
cb_manual_seed(seed) ==
    [kind |-> "manual_seed", device |-> get_device([isStr |-> TRUE, val |-> 0]), seed |-> seed, offset |-> 0]
cb_manual_seed_all(seed) ==
    [kind |-> "manual_seed_all", device |-> get_device([isStr |-> TRUE, val |-> 0]), seed |-> seed, offset |-> 0]
cb_seed ==
    [kind |-> "seed", device |-> get_device([isStr |-> TRUE, val |-> 0]), seed |-> 0, offset |-> 0]
cb_seed_all ==
    [kind |-> "seed_all", device |-> get_device([isStr |-> TRUE, val |-> 0]), seed |-> 0, offset |-> 0]

\* history: the devices callback cb is to touch when it runs with current device c
Targets(cb, c) ==
    CASE cb.kind \in {"set_state", "set_offset"} /\ cb.device.hasIndex -> {cb.device.index}
      [] cb.kind \in {"set_state", "set_offset", "manual_seed", "seed"} -> {c}
      [] OTHER -> Devices

\* running callback cb on generators g with current device c; r is what the
\* native generator's seed() draws
RunCb(cb, g, c, r) ==
    CASE cb.kind = "set_state" ->
            [g EXCEPT ![get_generator(cb.device, c)] = gen_set_state(@, <<cb.seed, cb.offset>>)]
      [] cb.kind = "set_offset" ->
            [g EXCEPT ![get_generator(cb.device, c)] = gen_set_offset(@, cb.offset)]
      [] cb.kind = "manual_seed" ->
            [g EXCEPT ![c] = gen_manual_seed(@, cb.seed)]
      [] cb.kind = "manual_seed_all" ->
            [i \in DOMAIN g |-> gen_manual_seed(g[i], cb.seed)]
      [] cb.kind = "seed" ->
            [g EXCEPT ![c] = gen_manual_seed(@, r)]
      [] OTHER ->
            [i \in DOMAIN g |-> gen_manual_seed(g[i], r)]

(***************************************************************************)
(* The lazy gate (torch/cuda/__init__.py: _lazy_call, _lazy_init,          *)
(* _queued_calls).  A queued entry holds the callback, and as history the  *)
(* number of the call that queued it and the device current at that call.  *)
(***************************************************************************)
Entry(cb) ==
    [cb |-> cb, n |-> Len(queued) + 1, at |-> IF cb.kind = "manual_seed" THEN cur ELSE 0]

\* history: what a manual_seed callback, called with device `at` current, did
MsRecord(at, seed, before, after) ==
    [at |-> at, seed |-> seed, seedAt |-> gen_initial_seed(after[at]),
     changed |-> {d \in DOMAIN before : before[d] # after[d]}]

\* history: the state set_rng_state with an explicit index left on each device,
\* forgotten for a device as soon as another mutation touches it
ExpectStep(e, cb, c) ==
    [d \in DOMAIN e |->
        IF d \in Targets(cb, c)
        THEN IF cb.kind = "set_state" /\ cb.device.hasIndex
             THEN <<cb.seed, cb.offset>> ELSE NoState
        ELSE e[d]]

RECURSIVE ExpectAfter(_, _, _, _)
\* ExpectStep over the entries of q in the order of their calls, from call i on
ExpectAfter(q, i, e, c) ==
    IF i > Len(q) THEN e
    ELSE LET j == CHOOSE k \in DOMAIN q : q[k].n = i
         IN ExpectAfter(q, i + 1, ExpectStep(e, q[j].cb, c), c)

RECURSIVE RunCalls(_, _, _, _, _)
\* _lazy_init's loop over _queued_calls: entry i onwards, oldest first
RunCalls(q, i, acc, c, rs) ==
    IF i > Len(q) THEN acc
    ELSE LET g2 == RunCb(q[i].cb, acc.g, c, rs[i])
             ms2 == IF q[i].cb.kind = "manual_seed"
                    THEN acc.ms \cup {MsRecord(q[i].at, q[i].cb.seed, acc.g, g2)}
                    ELSE acc.ms
         IN RunCalls(q, i + 1, [g |-> g2, ms |-> ms2], c, rs)

\* _lazy_init(): nothing when initialized; raises (and changes nothing) when there
\* is no device; else sets the device up once and runs the queued callbacks
lazy_init ==
    IF initialized \/ nDev = 0
    THEN /\ UNCHANGED <<initialized, queued, gens, initCount, expect>>
         /\ applied' = {}
    ELSE \E rs \in [1..Len(queued) -> Seeds] :
            LET out == RunCalls(queued, 1, [g |-> gens, ms |-> {}], cur, rs)
            IN /\ initialized' = TRUE
               /\ initCount' = initCount + 1
               /\ queued' = <<>>
               /\ gens' = out.g
               /\ applied' = out.ms
               /\ expect' = ExpectAfter(queued, 1, expect, cur)

\* _lazy_call(cb): runs cb at once when initialized, queues it otherwise
lazy_call(cb) ==
    IF initialized
    THEN /\ \E r \in (IF cb.kind \in {"seed", "seed_all"} THEN Seeds ELSE {0}) :
                gens' = RunCb(cb, gens, cur, r)
         /\ expect' = ExpectStep(expect, cb, cur)
         /\ applied' = IF cb.kind = "manual_seed"
                       THEN {MsRecord(cur, cb.seed, gens, gens')} ELSE {}
         /\ UNCHANGED <<initialized, queued, initCount>>
    ELSE /\ Len(queued) < MaxQueue
         /\ queued' = Append(queued, Entry(cb))
         /\ applied' = {}
         /\ UNCHANGED <<initialized, gens, initCount, expect>>

Called(op) == [NoCall EXCEPT !.op = op]

\* a mutating function that calls _lazy_init() itself before running its callback
EagerCall(cb, op) ==
    /\ IF initialized
       THEN lazy_call(cb)
       ELSE IF nDev = 0
       THEN /\ UNCHANGED <<initialized, queued, gens, initCount, expect>>
            /\ applied' = {}
       ELSE \E rs \in [1..(Len(queued) + 1) -> Seeds] :
               LET q == Append(queued, Entry(cb))
                   out == RunCalls(q, 1, [g |-> gens, ms |-> {}], cur, rs)
               IN /\ initialized' = TRUE
                  /\ initCount' = initCount + 1
                  /\ queued' = <<>>
                  /\ gens' = out.g
                  /\ applied' = out.ms
                  /\ expect' = ExpectAfter(q, 1, expect, cur)
    /\ last' = [Called(op) EXCEPT !.raised = ~initialized /\ nDev = 0,
                                  !.didInit = ~initialized /\ nDev > 0]
    /\ UNCHANGED <<nDev, cur>>

(***************************************************************************)
(* torch/cuda/random.py: the public functions, one action each             *)
(***************************************************************************)
get_rng_state(device) ==
    /\ lazy_init
    /\ last' = IF ~initialized'
               THEN [Called("get_rng_state") EXCEPT !.raised = TRUE]
               ELSE [Called("get_rng_state") EXCEPT
                        !.didInit = ~initialized,
                        !.explicit = get_device(device).hasIndex,
                        !.dev = IF device.isStr THEN cur ELSE device.val,
                        !.ret = <<gen_get_state(gens'[get_generator(get_device(device), cur)])>>]
    /\ UNCHANGED <<nDev, cur>>

get_rng_state_all ==
    /\ IF nDev = 0
       THEN /\ UNCHANGED <<initialized, queued, gens, initCount, expect>>
            /\ applied' = {}
       ELSE lazy_init
    /\ last' = [Called("get_rng_state_all") EXCEPT
                    !.didInit = initialized' /\ ~initialized,
                    !.ret = [i \in 1..nDev |-> gen_get_state(gens'[i - 1])]]
    /\ UNCHANGED <<nDev, cur>>

set_rng_state_eager(new_state, device) ==
    EagerCall(cb_set_rng_state(new_state, get_device(device)), "set_rng_state")

set_rng_state(new_state, device) ==
    /\ lazy_call(cb_set_rng_state(new_state, get_device(device)))
    /\ last' = Called("set_rng_state")
    /\ UNCHANGED <<nDev, cur>>

set_rng_state_offset(offset, device) ==
    /\ lazy_call(cb_set_rng_state_offset(offset, get_device(device)))
    /\ last' = Called("set_rng_state_offset")
    /\ UNCHANGED <<nDev, cur>>

RECURSIVE SetAllRun(_, _, _)
\* set_rng_state_all's loop when initialized: each callback runs at once
SetAllRun(new_states, i, g) ==
    IF i > Len(new_states) THEN g
    ELSE SetAllRun(new_states, i + 1,
            RunCb(cb_set_rng_state(new_states[i], get_device([isStr |-> FALSE, val |-> i - 1])),
                  g, cur, 0))

set_rng_state_all(new_states) ==
    /\ IF initialized
       THEN /\ gens' = SetAllRun(new_states, 1, gens)
            /\ expect' = [d \in DOMAIN expect |->
                            IF d + 1 \in DOMAIN new_states THEN new_states[d + 1] ELSE expect[d]]
            /\ UNCHANGED <<initialized, queued, initCount>>
       ELSE /\ Len(queued) + Len(new_states) <= MaxQueue
            /\ queued' = queued \o
                    [i \in DOMAIN new_states |->
                        [cb |-> cb_set_rng_state(new_states[i],
                                                get_device([isStr |-> FALSE, val |-> i - 1])),
                         n |-> Len(queued) + i, at |-> 0]]
            /\ UNCHANGED <<initialized, gens, initCount, expect>>
    /\ applied' = {}
    /\ last' = Called("set_rng_state_all")
    /\ UNCHANGED <<nDev, cur>>

manual_seed_eager(seed) ==
    EagerCall(cb_manual_seed(seed), "manual_seed")

manual_seed(seed) ==
    /\ lazy_call(cb_manual_seed(seed))
    /\ last' = Called("manual_seed")
    /\ UNCHANGED <<nDev, cur>>

manual_seed_all(seed) ==
    /\ lazy_call(cb_manual_seed_all(seed))
    /\ last' = Called("manual_seed_all")
    /\ UNCHANGED <<nDev, cur>>

seed ==
    /\ lazy_call(cb_seed)
    /\ last' = Called("seed")
    /\ UNCHANGED <<nDev, cur>>

seed_all ==
    /\ lazy_call(cb_seed_all)
    /\ last' = Called("seed_all")
    /\ UNCHANGED <<nDev, cur>>

initial_seed ==
    /\ lazy_init
    /\ last' = IF ~initialized'
               THEN [Called("initial_seed") EXCEPT !.raised = TRUE]
               ELSE [Called("initial_seed") EXCEPT
                        !.didInit = ~initialized,
                        !.dev = cur,
                        !.ret = <<gen_initial_seed(gens'[cur])>>]
    /\ UNCHANGED <<nDev, cur>>

\* torch.cuda.set_device(d): the caller makes another device current
set_device(d) ==
    /\ d # cur
    /\ cur' = d
    /\ applied' = {}
    /\ last' = Called("set_device")
    /\ UNCHANGED <<nDev, initialized, queued, gens, initCount, expect>>

RngStart ==
    /\ nDev \in DeviceCounts
    /\ initialized = FALSE
    /\ queued = <<>>
    /\ gens = [d \in Devices |-> [seed |-> 0, offset |-> 0]]
    /\ cur = 0
    /\ initCount = 0
    /\ expect = [d \in Devices |-> NoState]
    /\ applied = {}
    /\ last = NoCall

RngIdle ==
    /\ nDev = 0
    /\ initialized = FALSE
    /\ queued = <<>>
    /\ gens = <<>>
    /\ cur = 0
    /\ initCount = 0
    /\ expect = <<>>
    /\ applied = {}
    /\ last = NoCall

(***************************************************************************)
(* tools/stats/upload_test_stats.py: process_xml_element                   *)
(*                                                                         *)
(* Strings are sequences of characters.  A dict is a function from its     *)
(* keys; a value in it is tagged with its Python type: [str |-> s],        *)
(* [int |-> n], [float |-> x], [dict |-> d] or [list |-> l].               *)
(***************************************************************************)
MaxStrLen == 2
MaxChildren == 3

\* the characters attribute values are made of
Chars == {"1", ".", "a"}
AttrValues == UNION {[1..k -> Chars] : k \in 0..MaxStrLen}

IsDigit(c) == c \in {"0", "1", "2", "3", "4", "5", "6", "7", "8", "9"}
DigitVal(c) ==
    CASE c = "0" -> 0 [] c = "1" -> 1 [] c = "2" -> 2 [] c = "3" -> 3 [] c = "4" -> 4
      [] c = "5" -> 5 [] c = "6" -> 6 [] c = "7" -> 7 [] c = "8" -> 8 [] OTHER -> 9

\* int(v) succeeds (v made of Chars: no sign, blank or underscore)
IntParses(v) == Len(v) > 0 /\ \A i \in DOMAIN v : IsDigit(v[i])

RECURSIVE IntVal(_)
\* int(v) for a string of digits
IntVal(v) ==
    IF v = <<>> THEN 0
    ELSE 10 * IntVal(SubSeq(v, 1, Len(v) - 1)) + DigitVal(v[Len(v)])

\* float(v) succeeds: digits with at most one point and at least one digit
FloatParses(v) ==
    /\ \A i \in DOMAIN v : IsDigit(v[i]) \/ v[i] = "."
    /\ Cardinality({i \in DOMAIN v : v[i] = "."}) <= 1
    /\ \E i \in DOMAIN v : IsDigit(v[i])

\* float(v) as <<m, e>>, standing for m / 10^e
FloatVal(v) ==
    LET digits == SelectSeq(v, IsDigit)
        point == {i \in DOMAIN v : v[i] = "."}
        e == IF point = {} THEN 0 ELSE Len(v) - (CHOOSE i \in point : TRUE)
    IN <<IntVal(digits), e>>

\* the two try blocks of the attribute loop, in their order: int(v), then float(v)
ConvertAttr(v) ==
    LET afterInt == IF IntParses(v) THEN [int |-> IntVal(v)] ELSE [str |-> v]
    IN IF FloatParses(v) THEN [float |-> FloatVal(v)] ELSE afterInt

\* ret[k] = val
DictSet(ret, k, val) ==
    [x \in DOMAIN ret \cup {k} |-> IF x = k THEN val ELSE ret[x]]

\* s and s.strip() are both non-empty
HasText(s) == s # <<>> /\ \E i \in DOMAIN s : s[i] # " "

RECURSIVE process_xml_element(_)
RECURSIVE PlaceChildren(_, _, _)

\* the loop over the child elements, from child i on
PlaceChildren(children, i, ret) ==
    IF i > Len(children) THEN ret
    ELSE LET child == children[i]
             sub == [dict |-> process_xml_element(child)]
         IN IF child.tag \notin DOMAIN ret
            THEN PlaceChildren(children, i + 1, DictSet(ret, child.tag, sub))
            ELSE LET old == ret[child.tag]
                     lst == IF "list" \in DOMAIN old THEN old.list ELSE <<old>>
                 IN PlaceChildren(children, i + 1,
                        DictSet(ret, child.tag, [list |-> Append(lst, sub)]))

process_xml_element(el) ==
    LET attrs == [k \in DOMAIN el.attrib |-> ConvertAttr(el.attrib[k])]
        withText == IF HasText(el.text) THEN DictSet(attrs, "text", [str |-> el.text]) ELSE attrs
        withTail == IF HasText(el.tail) THEN DictSet(withText, "tail", [str |-> el.tail])
                    ELSE withText
    IN PlaceChildren(el.children, 1, withTail)

\* the elements handed in: a test case with up to two attributes, text, and
\* child elements that carry at most a message
AttrNames == {"time", "skipped"}
ChildTags == {"skipped", "failure"}
Texts == {<<>>, <<" ">>, <<"a">>}
Attribs(names, values) == UNION {[ks -> values] : ks \in SUBSET names}
ChildElements ==
    [tag : ChildTags, attrib : Attribs({"message"}, {<<"1">>}),
     text : {<<>>}, tail : {<<>>}, children : {<<>>}]
Elements ==
    [tag : {"testcase"}, attrib : Attribs(AttrNames, AttrValues),
     text : Texts, tail : {<<>>, <<"a">>},
     children : UNION {[1..k -> ChildElements] : k \in 0..MaxChildren}]

XmlStart ==
    /\ element \in Elements
    /\ xret = <<>>
    /\ xpc = "call"

XmlIdle ==
    /\ element = <<>>
    /\ xret = <<>>
    /\ xpc = "idle"

call_process_xml_element ==
    /\ xpc = "call"
    /\ xret' = process_xml_element(element)
    /\ xpc' = "done"
    /\ UNCHANGED element


(***************************************************************************)
(* tools/stats/upload_test_stats.py: summarize_test_cases and              *)
(* get_invoking_file_times                                                 *)
(*                                                                         *)
(* A test case is the dict parse_xml_report builds; `keys` holds which of  *)
(* "failure", "error", "skipped" and "rerun" it has an entry for.  A       *)
(* Python dict that is iterated is a sequence of [key, val] in insertion   *)
(* order.  Times are whole numbers.                                        *)
(***************************************************************************)
MaxCases == 2
NoJobId == 0
NoFile == "<None>"

get_key(test_case) ==
    <<test_case.file, test_case.classname, test_case.job_id, test_case.workflow_id,
      test_case.workflow_run_attempt, test_case.invoking_file>>

init_value(test_case) ==
    [file |-> test_case.file, classname |-> test_case.classname,
     job_id |-> test_case.job_id, workflow_id |-> test_case.workflow_id,
     workflow_run_attempt |-> test_case.workflow_run_attempt,
     invoking_file |-> test_case.invoking_file,
     tests |-> 0, failures |-> 0, errors |-> 0, skipped |-> 0, successes |-> 0, time |-> 0]

\* ret with key added when it is not in it (if key not in ret: ret[key] = value)
SetDefault(ret, key, value) ==
    IF \E i \in DOMAIN ret : ret[i].key = key THEN ret
    ELSE Append(ret, [key |-> key, val |-> value])

IndexOf(ret, key) == CHOOSE i \in DOMAIN ret : ret[i].key = key

\* the chain with if in place of elif: a case is counted once per entry it has
CountedEveryEntry(val, test_case) ==
    LET f == IF "failure" \in test_case.keys THEN [val EXCEPT !.failures = @ + 1] ELSE val
        e == IF "error" \in test_case.keys THEN [f EXCEPT !.errors = @ + 1] ELSE f
    IN IF "skipped" \in test_case.keys THEN [e EXCEPT !.skipped = @ + 1]
       ELSE IF test_case.keys \cap {"failure", "error"} = {}
            THEN [e EXCEPT !.successes = @ + 1] ELSE e

\* the if / elif chain that counts one test case
Counted(val, test_case) ==
    IF "failure" \in test_case.keys THEN [val EXCEPT !.failures = @ + 1]
    ELSE IF "error" \in test_case.keys THEN [val EXCEPT !.errors = @ + 1]
    ELSE IF "skipped" \in test_case.keys THEN [val EXCEPT !.skipped = @ + 1]
    ELSE [val EXCEPT !.successes = @ + 1]

\* one pass of summarize_test_cases' loop
SummarizeOne(ret, test_case) ==
    LET key == get_key(test_case)
        ret1 == SetDefault(ret, key, init_value(test_case))
        i == IndexOf(ret1, key)
        counted == Counted([ret1[i].val EXCEPT !.tests = @ + 1], test_case)
    IN [ret1 EXCEPT ![i].val = [counted EXCEPT !.time = @ + test_case.time]]

RECURSIVE SummarizeFrom(_, _, _)
SummarizeFrom(cases, i, ret) ==
    IF i > Len(cases) THEN ret
    ELSE SummarizeFrom(cases, i + 1, SummarizeOne(ret, cases[i]))

\* list(ret.values())
Values(ret) == [i \in DOMAIN ret |-> ret[i].val]

summarize_test_cases(cases) == Values(SummarizeFrom(cases, 1, <<>>))

invoking_key(summary) == <<summary.invoking_file, summary.job_id>>

invoking_init_value(summary) ==
    [job_id |-> summary.job_id, workflow_id |-> summary.workflow_id,
     workflow_run_attempt |-> summary.workflow_run_attempt,
     invoking_file |-> summary.invoking_file, time |-> [float |-> 0]]

\* the pass with the time assigned instead of added
InvokingOneAssign(ret, summary) ==
    LET key == invoking_key(summary)
        ret1 == SetDefault(ret, key, invoking_init_value(summary))
        i == IndexOf(ret1, key)
    IN [ret1 EXCEPT ![i].val.time = [float |-> summary.time]]

\* one pass of get_invoking_file_times' first loop
InvokingOne(ret, summary) ==
    LET key == invoking_key(summary)
        ret1 == SetDefault(ret, key, invoking_init_value(summary))
        i == IndexOf(ret1, key)
    IN [ret1 EXCEPT ![i].val.time = [float |-> @.float + summary.time]]

RECURSIVE InvokingFrom(_, _, _)
InvokingFrom(summaries, i, ret) ==
    IF i > Len(summaries) THEN ret
    ELSE InvokingFrom(summaries, i + 1, InvokingOne(ret, summaries[i]))

\* the second loop: the test suite's own time where pytest ran the file in parallel
TakeParallelTimes(ret, times) ==
    [i \in DOMAIN ret |->
        IF ret[i].key \in DOMAIN times
        THEN [ret[i] EXCEPT !.val.time = times[ret[i].key]]
        ELSE ret[i]]

get_invoking_file_times(summaries, times) ==
    Values(TakeParallelTimes(InvokingFrom(summaries, 1, <<>>), times))

\* the inputs
ClassNames == {"A", "B"}
JobIds == {1}
InvokingFiles == {"test_x", "test_y"}
CaseTimes == {1, 2}
CaseKeys == {{}, {"skipped"}, {"error", "skipped"}, {"failure", "error", "rerun"}}
TestCases ==
    [file : {NoFile}, classname : ClassNames, job_id : JobIds \cup {NoJobId},
     workflow_id : {1}, workflow_run_attempt : {1}, invoking_file : InvokingFiles,
     time : CaseTimes, keys : CaseKeys]
\* the time attribute of a testsuite element, a string
SuiteTimes == {[str |-> <<"9">>]}
ParallelTimes == UNION {[ks -> SuiteTimes] : ks \in SUBSET (InvokingFiles \X JobIds)}

SumStart ==
    /\ test_cases \in UNION {[1..k -> TestCases] : k \in 0..MaxCases}
    /\ test_case_summary = <<>>
    /\ pytest_parallel_times = <<>>
    /\ invoking_file_times = <<>>
    /\ spc = "summarize"

SumIdle ==
    /\ test_cases = <<>>
    /\ test_case_summary = <<>>
    /\ pytest_parallel_times = <<>>
    /\ invoking_file_times = <<>>
    /\ spc = "idle"

call_summarize_test_cases ==
    /\ spc = "summarize"
    /\ test_case_summary' = summarize_test_cases(test_cases)
    /\ spc' = "times"
    /\ UNCHANGED <<test_cases, pytest_parallel_times, invoking_file_times>>

call_get_invoking_file_times ==
    /\ spc = "times"
    /\ \E times \in ParallelTimes :
            /\ pytest_parallel_times' = times
            /\ invoking_file_times' = get_invoking_file_times(test_case_summary, times)
    /\ spc' = "done"
    /\ UNCHANGED <<test_cases, test_case_summary>>

(***************************************************************************)
(* tools/stats/upload_test_stats.py: a run (get_tests or                   *)
(* get_tests_for_circleci, then the body of __main__)                      *)
(*                                                                         *)
(* A report is [head, dir, content]: head is the first component of its    *)
(* path; dir says which globs it matches; content says whether ET.parse    *)
(* accepts it and whether is_rerun_disabled_tests holds of it.  A report   *)
(* that parses holds one testsuite with one testcase.                      *)
(***************************************************************************)
MaxReports == 2

Heads == {<<"r", "_", "7">>, <<"r", "7">>, <<"r", "_">>}
\* "unittest": under test/test-reports, not under python-pytest;
\* "pytest": under test/test-reports/python-pytest;
\* "loose-pytest": under python-pytest, outside test/test-reports
Dirs == {"unittest", "pytest", "loose-pytest"}
Contents == {"ok", "rerun", "malformed"}
Reports == [head : Heads, dir : Dirs, content : Contents]

\* s.rpartition("_")[2]
RPartitionTail(s) ==
    LET at == {i \in DOMAIN s : s[i] = "_"}
    IN IF at = {} THEN s
       ELSE SubSeq(s, (CHOOSE i \in at : \A j \in at : j <= i) + 1, Len(s))

get_job_id_raises(report) == ~IntParses(RPartitionTail(report.head))
get_job_id(report) == IntVal(RPartitionTail(report.head))

\* parse_xml_report's try / except around get_job_id
ParsedJobId(report) ==
    IF get_job_id_raises(report) THEN NoJobId ELSE get_job_id(report)

\* the test cases parse_xml_report returns for a report that parses
CasesOf(report) ==
    IF report.content = "rerun" THEN <<>>
    ELSE <<[file |-> NoFile, classname |-> "A", job_id |-> ParsedJobId(report),
            workflow_id |-> 1, workflow_run_attempt |-> 1, invoking_file |-> "test_x",
            time |-> 1, keys |-> {}]>>

\* the glob of the parse loop: **/*.xml, or **/test/test-reports/**/*.xml on circleci
InParseGlob(report) == ~circleci \/ report.dir \in {"unittest", "pytest"}
\* **/python-pytest/**/*.xml
InPytestGlob(report) == report.dir \in {"pytest", "loose-pytest"}

RECURSIVE SkipTo(_)
\* the next report of the parse loop at or after i
SkipTo(i) ==
    IF i > Len(reports) \/ InParseGlob(reports[i]) THEN i ELSE SkipTo(i + 1)

AfterReports(i) == IF SkipTo(i) > Len(reports) THEN "pytest_times" ELSE "parse"

Raise(what) ==
    /\ pc' = "failed"
    /\ failedBy' = what

\* one of the four download and unzip steps of get_tests
Fetch(step, next, what) ==
    /\ pc = step
    /\ \/ /\ pc' = next
          /\ fetched' = fetched \cup {step}
          /\ UNCHANGED failedBy
       \/ /\ Raise(what)
          /\ UNCHANGED fetched
    /\ UNCHANGED <<circleci, head_branch, reports, cursor, parsed, uploads, sumVars>>

download_s3_artifacts == Fetch("download_s3", "unzip_s3", "download")
unzip_s3 == Fetch("unzip_s3", "download_gha", "unzip")
download_gha_artifacts == Fetch("download_gha", "unzip_gha", "download")
unzip_gha == Fetch("unzip_gha", AfterReports(1), "unzip")

\* one pass of the parse loop: parse_xml_report on the next report of the glob
parse_xml_report ==
    /\ pc = "parse"
    /\ LET i == SkipTo(cursor)
           report == reports[i]
       IN IF report.content = "malformed"
          THEN /\ Raise("malformed")
               /\ UNCHANGED <<cursor, parsed, test_cases>>
          ELSE /\ test_cases' = test_cases \o CasesOf(report)
               /\ parsed' = parsed \cup {i}
               /\ cursor' = i + 1
               /\ pc' = AfterReports(i + 1)
               /\ UNCHANGED failedBy
    /\ UNCHANGED <<circleci, head_branch, reports, fetched, uploads,
                   test_case_summary, pytest_parallel_times, invoking_file_times, spc>>

RECURSIVE PytestTimesFrom(_, _)
\* get_pytest_parallel_times' loop from report i on: the dict, or what raised
PytestTimesFrom(i, times) ==
    IF i > Len(reports) THEN [raised |-> "", times |-> times]
    ELSE LET report == reports[i]
         IN IF ~InPytestGlob(report) THEN PytestTimesFrom(i + 1, times)
            ELSE IF report.content = "malformed" THEN [raised |-> "malformed", times |-> times]
            ELSE IF report.content = "rerun" THEN PytestTimesFrom(i + 1, times)
            ELSE IF get_job_id_raises(report) THEN [raised |-> "get_job_id", times |-> times]
            ELSE PytestTimesFrom(i + 1,
                    DictSet(times, <<"test_x", get_job_id(report)>>, [str |-> <<"9">>]))

get_pytest_parallel_times ==
    /\ pc = "pytest_times"
    /\ LET out == PytestTimesFrom(1, <<>>)
       IN IF out.raised # ""
          THEN /\ Raise(out.raised)
               /\ UNCHANGED pytest_parallel_times
          ELSE /\ pytest_parallel_times' = out.times
               /\ pc' = "summarize"
               /\ UNCHANGED failedBy
    /\ UNCHANGED <<circleci, head_branch, reports, cursor, parsed, fetched, uploads,
                   test_cases, test_case_summary, invoking_file_times, spc>>

\* __main__: the two aggregations before the first upload
summarize ==
    /\ pc = "summarize"
    /\ test_case_summary' = summarize_test_cases(test_cases)
    /\ invoking_file_times' = get_invoking_file_times(test_case_summary', pytest_parallel_times)
    /\ pc' = "upload_test_run_summary"
    /\ UNCHANGED <<circleci, head_branch, reports, cursor, parsed, fetched, uploads, failedBy,
                   test_cases, pytest_parallel_times, spc>>

\* upload_workflow_stats_to_s3(..., table, ...) at step `step` of __main__
Upload(step, table, next) ==
    /\ pc = step
    /\ \/ /\ uploads' = Append(uploads, table)
          /\ pc' = next
          /\ UNCHANGED failedBy
       \/ /\ Raise("upload")
          /\ UNCHANGED uploads
    /\ UNCHANGED <<circleci, head_branch, reports, cursor, parsed, fetched, sumVars>>

\* an upload issued from inside the parse loop
upload_test_run_summary_in_loop ==
    /\ pc \in {"parse", "upload_test_run_summary"}
    /\ uploads = <<>>
    /\ uploads' = Append(uploads, "test_run_summary")
    /\ pc' = IF pc = "parse" THEN pc ELSE "upload_invoking_file_times"
    /\ UNCHANGED <<circleci, head_branch, reports, cursor, parsed, fetched, failedBy, sumVars>>

upload_test_run_summary ==
    Upload("upload_test_run_summary", "test_run_summary", "upload_invoking_file_times")
upload_invoking_file_times ==
    Upload("upload_invoking_file_times", "invoking_file_times", "upload_failed_test_runs")
upload_failed_test_runs ==
    Upload("upload_failed_test_runs", "failed_test_runs",
           IF head_branch = "main" THEN "upload_test_run" ELSE "done")
upload_test_run ==
    Upload("upload_test_run", "test_run", "done")

RunStart ==
    /\ circleci \in BOOLEAN
    /\ head_branch \in {"main", "pr"}
    /\ reports \in UNION {[1..k -> Reports] : k \in 0..MaxReports}
    /\ pc = IF circleci THEN AfterReports(1) ELSE "download_s3"
    /\ cursor = 1
    /\ parsed = {}
    /\ fetched = {}
    /\ uploads = <<>>
    /\ failedBy = ""
    /\ test_cases = <<>>
    /\ test_case_summary = <<>>
    /\ pytest_parallel_times = <<>>
    /\ invoking_file_times = <<>>
    /\ spc = "idle"

RunIdle ==
    /\ circleci = FALSE
    /\ head_branch = ""
    /\ reports = <<>>
    /\ pc = "idle"
    /\ cursor = 1
    /\ parsed = {}
    /\ fetched = {}
    /\ uploads = <<>>
    /\ failedBy = ""

(***************************************************************************)
(* Specifications                                                          *)
(***************************************************************************)
RngInit == RngStart /\ XmlIdle /\ SumIdle /\ RunIdle
NotRng == UNCHANGED <<xmlVars, sumVars, runVars>>
RngStep ==
    \/ \E device \in DeviceArgs : get_rng_state(device) /\ NotRng
    \/ get_rng_state_all /\ NotRng
    \/ \E new_state \in States, device \in DeviceArgs :
            set_rng_state(new_state, device) /\ NotRng
    \/ \E k \in 1..nDev : \E new_states \in [1..k -> States] :
            set_rng_state_all(new_states) /\ NotRng
    \/ \E offset \in Offsets, device \in DeviceArgs :
            set_rng_state_offset(offset, device) /\ NotRng
    \/ \E s \in Seeds : manual_seed(s) /\ NotRng
    \/ \E s \in Seeds : manual_seed_all(s) /\ NotRng
    \/ seed /\ NotRng
    \/ seed_all /\ NotRng
    \/ initial_seed /\ NotRng
    \/ \E d \in Devices : set_device(d) /\ NotRng
SpecRng == RngInit /\ [][RngStep]_vars

XmlInit == RngIdle /\ XmlStart /\ SumIdle /\ RunIdle
XmlNext == call_process_xml_element /\ UNCHANGED <<rngVars, sumVars, runVars>>
SpecXml == XmlInit /\ [][XmlNext]_vars

SumInit == RngIdle /\ XmlIdle /\ SumStart /\ RunIdle
NotSum == UNCHANGED <<rngVars, xmlVars, runVars>>
SumNext ==
    \/ call_summarize_test_cases /\ NotSum
    \/ call_get_invoking_file_times /\ NotSum
SpecSum == SumInit /\ [][SumNext]_vars

RunInit == RngIdle /\ XmlIdle /\ RunStart
NotRun == UNCHANGED <<rngVars, xmlVars>>
RunNext ==
    \/ download_s3_artifacts /\ NotRun
    \/ unzip_s3 /\ NotRun
    \/ download_gha_artifacts /\ NotRun
    \/ unzip_gha /\ NotRun
    \/ parse_xml_report /\ NotRun
    \/ get_pytest_parallel_times /\ NotRun
    \/ summarize /\ NotRun
    \/ upload_test_run_summary /\ NotRun
    \/ upload_invoking_file_times /\ NotRun
    \/ upload_failed_test_runs /\ NotRun
    \/ upload_test_run /\ NotRun
SpecRun == RunInit /\ [][RunNext]_vars

(***************************************************************************)
(* Properties of the RNG wrapper                                           *)
(***************************************************************************)
ReadOps == {"get_rng_state", "get_rng_state_all", "initial_seed"}
MutatingOps == {"set_rng_state", "set_rng_state_offset", "set_rng_state_all",
                "manual_seed", "manual_seed_all", "seed", "seed_all"}
SeedOps == {"manual_seed", "manual_seed_all", "seed", "seed_all"}

\* C2: over any sequence of calls the device is set up at most once, and only in
\* a step of get_rng_state (also when get_rng_state_all calls it) or initial_seed;
\* a mutating call never sets it up: before initialization it only lengthens the
\* gate's queue and leaves the generators alone.
C2_InitOnceOnlyOnReads ==
    [][/\ initCount' # initCount =>
            (initCount = 0 /\ initCount' = 1 /\ last'.op \in ReadOps)
       /\ initialized' # initialized =>
            (~initialized /\ initCount' = initCount + 1)
       /\ last'.op \in MutatingOps =>
            /\ initialized' = initialized
            /\ initCount' = initCount
            /\ ~initialized => (Len(queued') > Len(queued) /\ gens' = gens)]_vars

\* C2 witness: a read has just set the device up and run a queued manual_seed.
C2_Witness ==
    /\ last.op = "initial_seed" /\ last.didInit
    /\ initCount = 1 /\ applied # {}

\* C3: with no device, a call of manual_seed, manual_seed_all, seed or seed_all
\* raises nothing, leaves the runtime uninitialized and changes no generator.
C3_SeedingWithoutDeviceIsNoOp ==
    (nDev = 0 /\ last.op \in SeedOps) =>
        /\ ~last.raised
        /\ ~initialized /\ initCount = 0
        /\ gens = [d \in Devices |-> [seed |-> 0, offset |-> 0]]
        /\ applied = {}

\* C3 witness: no device, and two seeding calls made one after the other.
C3_Witness ==
    /\ nDev = 0 /\ last.op = "manual_seed_all"
    /\ Len(queued) = 2 /\ queued[1].cb.kind = "seed"

C5_ChildrenUnderTheirTag ==
    xpc = "done" =>
        \A t \in {element.children[i].tag : i \in DOMAIN element.children} :
            LET cs == SelectSeq(element.children, LAMBDA c : c.tag = t)
                conv == [i \in DOMAIN cs |-> [dict |-> process_xml_element(cs[i])]]
            IN xret[t] = IF Len(cs) = 1 THEN conv[1] ELSE [list |-> conv]

\* C6 as stated, for an element without children: an attribute value that parses
\* as an integer is stored as an int, one that parses only as a float as a float,
\* any other as the original string.
C6_AttributesConverted ==
    (xpc = "done" /\ element.children = <<>>) =>
        \A k \in DOMAIN element.attrib :
            LET v == element.attrib[k]
            IN xret[k] = IF IntParses(v) THEN [int |-> IntVal(v)]
                         ELSE IF FloatParses(v) THEN [float |-> FloatVal(v)]
                         ELSE [str |-> v]

(***************************************************************************)
(* Properties of the aggregation                                           *)
(***************************************************************************)
KeyOf(d) ==
    <<d.file, d.classname, d.job_id, d.workflow_id, d.workflow_run_attempt, d.invoking_file>>

\* failure before error before skipped, success otherwise
OutcomeOf(test_case) ==
    CASE "failure" \in test_case.keys -> "failure"
      [] "error" \in test_case.keys -> "error"
      [] "skipped" \in test_case.keys -> "skipped"
      [] OTHER -> "success"

RECURSIVE TotalTime(_, _)
\* the sum of seq[i].time over the indices in `is`
TotalTime(seq, is) ==
    IF is = {} THEN 0
    ELSE LET i == CHOOSE x \in is : TRUE
         IN seq[i].time + TotalTime(seq, is \ {i})

\* C1: summarize_test_cases returns one summary per distinct key of the input;
\* its tests is the number of cases with the key, its time the sum of their times,
\* and each case is counted once: as a failure, else an error, else skipped, else
\* a success, so that the four counts add up to tests.
C1_OneSummaryPerKey ==
    spc \in {"times", "done"} =>
        /\ \A i, j \in DOMAIN test_case_summary :
                KeyOf(test_case_summary[i]) = KeyOf(test_case_summary[j]) => i = j
        /\ {KeyOf(test_case_summary[i]) : i \in DOMAIN test_case_summary}
                = {KeyOf(test_cases[k]) : k \in DOMAIN test_cases}
        /\ \A i \in DOMAIN test_case_summary :
                LET s == test_case_summary[i]
                    ks == {k \in DOMAIN test_cases : KeyOf(test_cases[k]) = KeyOf(s)}
                    n(o) == Cardinality({k \in ks : OutcomeOf(test_cases[k]) = o})
                IN /\ s.tests = Cardinality(ks)
                   /\ s.time = TotalTime(test_cases, ks)
                   /\ s.failures = n("failure") /\ s.errors = n("error")
                   /\ s.skipped = n("skipped") /\ s.successes = n("success")
                   /\ s.failures + s.errors + s.skipped + s.successes = s.tests

\* C1 witness: two cases with one key, one with failure and error entries and one
\* skipped, summarized into one summary of two tests.
C1_Witness ==
    /\ spc = "times" /\ Len(test_cases) = 2 /\ Len(test_case_summary) = 1
    /\ test_cases[1].keys = {"failure", "error", "rerun"}
    /\ test_cases[2].keys = {"skipped"}
    /\ test_cases[1].time # test_cases[2].time
    /\ test_case_summary[1].tests = 2

PairOf(d) == <<d.invoking_file, d.job_id>>

\* C10: get_invoking_file_times returns one record per distinct (invoking_file,
\* job_id) of the summaries; its time is the test suite's time in
\* pytest_parallel_times when the pair is a key there, else the sum of the times
\* of the summaries with the pair.
C10_OneRecordPerInvokingFile ==
    spc = "done" =>
        /\ \A i, j \in DOMAIN invoking_file_times :
                PairOf(invoking_file_times[i]) = PairOf(invoking_file_times[j]) => i = j
        /\ {PairOf(invoking_file_times[i]) : i \in DOMAIN invoking_file_times}
                = {PairOf(test_case_summary[k]) : k \in DOMAIN test_case_summary}
        /\ \A i \in DOMAIN invoking_file_times :
                LET r == invoking_file_times[i]
                    ks == {k \in DOMAIN test_case_summary :
                                PairOf(test_case_summary[k]) = PairOf(r)}
                IN r.time = IF PairOf(r) \in DOMAIN pytest_parallel_times
                            THEN pytest_parallel_times[PairOf(r)]
                            ELSE [float |-> TotalTime(test_case_summary, ks)]

\* C10 witness: two summaries of one invoking file and job that pytest did not
\* run in parallel, while it did run another, give one record with their sum.
C10_Witness ==
    /\ spc = "done" /\ Len(test_case_summary) = 2 /\ Len(invoking_file_times) = 1
    /\ test_case_summary[1].time # test_case_summary[2].time
    /\ pytest_parallel_times # <<>>
    /\ PairOf(invoking_file_times[1]) \notin DOMAIN pytest_parallel_times

(***************************************************************************)
(* Properties of a run                                                     *)
(***************************************************************************)
\* C4 as stated: the run is never ended by a failure to extract the job id of a
\* report; here of a report for which parse_xml_report had caught that failure
\* and returned its test cases.
C4_JobIdFailureNeverFatal ==
    ~(/\ pc = "failed" /\ failedBy = "get_job_id"
      /\ \E i \in parsed : /\ get_job_id_raises(reports[i])
                            /\ InPytestGlob(reports[i]) /\ reports[i].content = "ok")

\* C7: once a table has been uploaded, every download and unzip step has finished
\* (there is none on circleci) and parse_xml_report has returned for every report
\* of the glob; a run that a download, an unzip or a malformed report ended has
\* uploaded nothing.
C7_NoUploadBeforeAllParsed ==
    /\ uploads # <<>> =>
            /\ ~circleci => fetched = {"download_s3", "unzip_s3", "download_gha", "unzip_gha"}
            /\ parsed = {i \in DOMAIN reports : InParseGlob(reports[i])}
    /\ (pc = "failed" /\ failedBy \in {"download", "unzip", "malformed"}) => uploads = <<>>

\* C7 witness: a run that downloaded, parsed two reports and has uploaded.
C7_Witness ==
    /\ ~circleci /\ Len(reports) = 2 /\ parsed = {1, 2}
    /\ uploads = <<"test_run_summary", "invoking_file_times">>

====
